---- MODULE Spec2Model ----
(***************************************************************************)
(* A model of hrx-get (src/src/lib.rs): reading of Human Readable Archive  *)
(* data.  Text is a sequence of bytes (natural numbers), so that slicing,  *)
(* searching and the ordering of the BTreeMap keys are computed as the     *)
(* code computes them.                                                     *)
(***************************************************************************)
EXTENDS Naturals, Sequences, FiniteSets

VARIABLES mode, path, fs, data, pc, boundary, hay, finished, files,
          result, loadResult, parseCalls, out

vars == <<mode, path, fs, data, pc, boundary, hay, finished, files,
          result, loadResult, parseCalls, out>>

\* ---------------------------------------------------------------- bytes
\* b'\n', ' ', b'<', b'=', b'>'
NL == 10
SP == 32
LT == 60
EQ == 61
GT == 62

\* ---------------------------------------------------------------- bounds
\* The longest input body, counted in tokens of BodyTokens.
MaxTokens == 4

\* ---------------------------------------------------------------- Option
None == [some |-> FALSE]
Some(v) == [some |-> TRUE, val |-> v]

\* ---------------------------------------------------------------- strings
Min(S) == CHOOSE m \in S : \A n \in S : m <= n

\* &s[from..] with a 0-based byte offset
SliceFrom(s, from) == SubSeq(s, from + 1, Len(s))

\* str::find(pat): the 1-based position of the first match, 0 when none.
Find(s, pat) ==
    LET hits == {i \in 1..(Len(s) + 1 - Len(pat)) :
                    SubSeq(s, i, i + Len(pat) - 1) = pat}
    IN IF Len(pat) > Len(s) \/ hits = {} THEN 0 ELSE Min(hits)

\* Ord for str: lexicographic comparison of the bytes.
LexLess(a, b) ==
    \E i \in 1..(Len(a) + 1) :
        /\ i <= Len(b)
        /\ SubSeq(a, 1, i - 1) = SubSeq(b, 1, i - 1)
        /\ (i = Len(a) + 1 \/ a[i] < b[i])

\* ---------------------------------------------------------------- find_boundary
RECURSIVE ScanBoundary(_, _)
ScanBoundary(d, i) ==
    IF i > Len(d) THEN None
    ELSE IF i = 1 /\ d[i] = LT THEN ScanBoundary(d, i + 1)
    ELSE IF d[i] = EQ THEN ScanBoundary(d, i + 1)
    ELSE IF d[i] = GT THEN Some(SubSeq(d, 1, i))
    ELSE None

find_boundary(d) == ScanBoundary(d, 1)

\* format!("\n{}", boundary)
Delimiter(b) == <<NL>> \o b

\* ---------------------------------------------------------------- the map
\* BTreeMap<String, String>: a sequence of <<key, value>> in key order.
Keys(f) == {f[i][1] : i \in 1..Len(f)}

\* Insert that keeps the value a key already has.
InsertKeepFirst(f, k, v) ==
    IF k \in Keys(f) THEN f
    ELSE LET n == Cardinality({i \in 1..Len(f) : LexLess(f[i][1], k)})
         IN SubSeq(f, 1, n) \o <<(<<k, v>>)>> \o SubSeq(f, n + 1, Len(f))

\* Insert that keeps the order of insertion instead of the order of the keys.
InsertAppend(f, k, v) ==
    IF k \in Keys(f)
    THEN [i \in 1..Len(f) |-> IF f[i][1] = k THEN <<k, v>> ELSE f[i]]
    ELSE f \o <<(<<k, v>>)>>

Insert(f, k, v) ==
    IF k \in Keys(f)
    THEN [i \in 1..Len(f) |-> IF f[i][1] = k THEN <<k, v>> ELSE f[i]]
    ELSE LET n == Cardinality({i \in 1..Len(f) : LexLess(f[i][1], k)})
         IN SubSeq(f, 1, n) \o <<(<<k, v>>)>> \o SubSeq(f, n + 1, Len(f))

names(f) == [i \in 1..Len(f) |-> f[i][1]]

get(f, name) ==
    IF name \in Keys(f)
    THEN Some(f[CHOOSE i \in 1..Len(f) : f[i][1] = name][2])
    ELSE None

entries(f) == [i \in 1..Len(f) |-> <<f[i][1], f[i][2]>>]

\* ---------------------------------------------------------------- parse
\* A split on the boundary alone: the newline before it stays in the item.
NextItemKeepNewline(h, delim) ==
    LET p == Find(h, delim)
    IN IF p = 0
       THEN [item |-> h, rest |-> <<>>, finished |-> TRUE]
       ELSE [item |-> SubSeq(h, 1, p),
             rest |-> SliceFrom(h, p - 1 + Len(delim)),
             finished |-> FALSE]

\* One next() of data.split(&boundary): the item before the next match and
\* the haystack after it; without a match the rest is the last item.
NextItem(h, delim) ==
    LET p == Find(h, delim)
    IN IF p = 0
       THEN [item |-> h, rest |-> <<>>, finished |-> TRUE]
       ELSE [item |-> SubSeq(h, 1, p - 1),
             rest |-> SliceFrom(h, p - 1 + Len(delim)),
             finished |-> FALSE]

\* A loop body that skips what it does not recognise.
ClassifyLenient(item) ==
    IF item = <<>> \/ item[1] = NL THEN "comment"
    ELSE IF item[1] = SP THEN "header"
    ELSE "comment"

\* A loop body that rejects a header item without a newline.
ClassifyStrict(item) ==
    IF item = <<>> \/ item[1] = NL THEN "comment"
    ELSE IF item[1] = SP /\ (\E k \in 1..Len(item) : item[k] = NL) THEN "header"
    ELSE "invalid"

\* A loop body that takes only the empty item for a comment.
ClassifyEmptyOnly(item) ==
    IF item = <<>> THEN "comment"
    ELSE IF item[1] = SP THEN "header"
    ELSE "invalid"

\* The branch of the loop body an item takes.
Classify(item) ==
    IF item = <<>> \/ item[1] = NL THEN "comment"
    ELSE IF item[1] = SP THEN "header"
    ELSE "invalid"

\* A body that begins at the newline instead of after it.
HeaderEntryKeepNewline(item) ==
    LET it == SliceFrom(item, 1)
        nl == Find(it, <<NL>>)
    IN IF nl # 0
       THEN <<SubSeq(it, 1, nl - 1), SliceFrom(it, nl - 1)>>
       ELSE <<it, <<>> >>

\* The (name, body) a header item inserts.
HeaderEntry(item) ==
    LET it == SliceFrom(item, 1)
        nl == Find(it, <<NL>>)
    IN IF nl # 0
       THEN <<SubSeq(it, 1, nl - 1), SliceFrom(it, nl)>>
       ELSE <<it, <<>> >>

Ok(f) == [tag |-> "Ok", files |-> f]
ErrNoBoundary == [tag |-> "NoBoundary"]
ErrInvalidItem(item) == [tag |-> "InvalidItem", item |-> item]
Pending == [tag |-> "Pending"]

\* The for loop of parse, run to its end from one iterator state.
RECURSIVE ParseItems(_, _, _)
ParseItems(h, delim, f) ==
    LET n == NextItem(h, delim)
        c == Classify(n.item)
        g == IF c = "header"
             THEN Insert(f, HeaderEntry(n.item)[1], HeaderEntry(n.item)[2])
             ELSE f
    IN IF c = "invalid" THEN ErrInvalidItem(n.item)
       ELSE IF n.finished THEN Ok(g)
       ELSE ParseItems(n.rest, delim, g)

\* Archive::parse as a function of its input.
Parse(d) ==
    LET b == find_boundary(d)
    IN IF ~b.some THEN ErrNoBoundary
       ELSE ParseItems(SliceFrom(d, Len(Delimiter(b.val)) - 1), Delimiter(b.val), <<>>)

\* ---------------------------------------------------------------- load
FileErrorIo(p, e) == [tag |-> "Io", path |-> p, err |-> e]
\* A parse error reported as a read error.
FileErrorDataAsIo(p, e) == [tag |-> "Io", path |-> p, err |-> e]
FileErrorData(p, e) == [tag |-> "Data", path |-> p, err |-> e]

\* ---------------------------------------------------------------- inputs
\* "<=>", "<==>": boundaries of the two shortest lengths
Heads == { <<60, 61, 62>>, <<60, 61, 61, 62>> }

\* Openings that are no boundary of the shape <=+>:
\* "", "<", "<=", "<>", ">", "=>", "a<=>", "<<=>", "<=a>", " <=>"
OddHeads ==
    { <<>>, <<60>>, <<60, 61>>, <<60, 62>>, <<62>>, <<61, 62>>,
      <<97, 60, 61, 62>>, <<60, 60, 61, 62>>, <<60, 61, 97, 62>>,
      <<32, 60, 61, 62>> }

\* "\n<=>", "\n<==>", " a", " a\nx", " ", "\n", "x", "b"
BodyTokens ==
    { <<10, 60, 61, 62>>, <<10, 60, 61, 61, 62>>, <<32, 97>>,
      <<32, 97, 10, 120>>, <<32>>, <<10>>, <<120>>, <<98>> }

RECURSIVE Bodies(_)
Bodies(n) ==
    IF n = 0 THEN { <<>> }
    ELSE LET B == Bodies(n - 1)
         IN B \cup {b \o t : b \in B, t \in BodyTokens}

\* "<===> hello.md\n# Hi\nBody.\n<===>\nA comment.\n<===> foo.txt\nOther.\n"
Scenario ==
    <<60,61,61,61,62,32,104,101,108,108,111,46,109,100,10,35,32,72,105,10,
      66,111,100,121,46,10,60,61,61,61,62,10,65,32,99,111,109,109,101,110,
      116,46,10,60,61,61,61,62,32,102,111,111,46,116,120,116,10,79,116,104,
      101,114,46,10>>

Inputs ==
    {h \o b : h \in Heads, b \in Bodies(MaxTokens)}
    \cup {h \o b : h \in OddHeads, b \in Bodies(1)}
    \cup {Scenario}

\* What Archive::load may find behind a path.
LoadInputs == {h \o b : h \in Heads \cup OddHeads, b \in Bodies(1)}
IoErrors == {"NotFound", "PermissionDenied", "InvalidData"}
Paths == {"a.hrx", "no/such/file.hrx"}
NoPath == "-"
NoFile == [ok |-> FALSE, err |-> "-"]

\* "", "a", "x"
ProbeNames == { <<>>, <<97>>, <<120>> }

\* ---------------------------------------------------------------- state machine
Init ==
    /\ \/ /\ mode = "parse"
          /\ path = NoPath
          /\ fs = NoFile
          /\ data \in Inputs
          /\ pc = "parse"
       \/ /\ mode = "load"
          /\ path \in Paths
          /\ fs \in {[ok |-> FALSE, err |-> e] : e \in IoErrors}
                    \cup {[ok |-> TRUE, text |-> t] : t \in LoadInputs}
          /\ data = <<>>
          /\ pc = "load"
    /\ boundary = <<>>
    /\ hay = <<>>
    /\ finished = FALSE
    /\ files = <<>>
    /\ result = Pending
    /\ loadResult = Pending
    /\ parseCalls = 0
    /\ out = [op |-> "none"]

Return == IF mode = "load" THEN "ret" ELSE "done"

\* load, line 40: read_to_string(file), an error returned as FileError::Io
LoadRead ==
    /\ pc = "load"
    /\ IF fs.ok
       THEN /\ data' = fs.text
            /\ pc' = "parse"
            /\ UNCHANGED loadResult
       ELSE /\ loadResult' = FileErrorIo(path, fs.err)
            /\ pc' = "done"
            /\ UNCHANGED data
    /\ UNCHANGED <<mode, path, fs, boundary, hay, finished, files, result,
                   parseCalls, out>>

\* parse, lines 46-48: the boundary, then the split iterator
ParseBoundary ==
    /\ pc = "parse"
    /\ parseCalls' = parseCalls + 1
    /\ files' = <<>>
    /\ LET b == find_boundary(data)
       IN IF b.some
          THEN /\ boundary' = Delimiter(b.val)
               /\ hay' = SliceFrom(data, Len(Delimiter(b.val)) - 1)
               /\ finished' = FALSE
               /\ pc' = "items"
               /\ UNCHANGED result
          ELSE /\ result' = ErrNoBoundary
               /\ pc' = Return
               /\ UNCHANGED <<boundary, hay, finished>>
    /\ UNCHANGED <<mode, path, fs, data, loadResult, out>>

\* parse, lines 49-50: a comment item
ItemComment ==
    /\ pc = "items" /\ ~finished
    /\ LET n == NextItem(hay, boundary)
       IN /\ Classify(n.item) = "comment"
          /\ hay' = n.rest
          /\ finished' = n.finished
    /\ UNCHANGED <<mode, path, fs, data, pc, boundary, files, result,
                   loadResult, parseCalls, out>>

\* parse, lines 51-59: a header item
ItemHeader ==
    /\ pc = "items" /\ ~finished
    /\ LET n == NextItem(hay, boundary)
       IN /\ Classify(n.item) = "header"
          /\ files' = Insert(files, HeaderEntry(n.item)[1], HeaderEntry(n.item)[2])
          /\ hay' = n.rest
          /\ finished' = n.finished
    /\ UNCHANGED <<mode, path, fs, data, pc, boundary, result, loadResult,
                   parseCalls, out>>

\* parse, lines 60-62: anything else
ItemInvalid ==
    /\ pc = "items" /\ ~finished
    /\ LET n == NextItem(hay, boundary)
       IN /\ Classify(n.item) = "invalid"
          /\ result' = ErrInvalidItem(n.item)
    /\ pc' = Return
    /\ UNCHANGED <<mode, path, fs, data, boundary, hay, finished, files,
                   loadResult, parseCalls, out>>

\* parse, line 64
ParseOk ==
    /\ pc = "items" /\ finished
    /\ result' = Ok(files)
    /\ pc' = Return
    /\ UNCHANGED <<mode, path, fs, data, boundary, hay, finished, files,
                   loadResult, parseCalls, out>>

\* load, line 41: the result of parse, an error returned as FileError::Data
LoadReturn ==
    /\ pc = "ret"
    /\ loadResult' = IF result.tag = "Ok" THEN result
                     ELSE FileErrorData(path, result)
    /\ pc' = "done"
    /\ UNCHANGED <<mode, path, fs, data, boundary, hay, finished, files,
                   result, parseCalls, out>>

\* The value the caller holds.
Returned == IF mode = "load" THEN loadResult ELSE result

HasArchive == pc = "done" /\ Returned.tag = "Ok"

CallNames ==
    /\ HasArchive
    /\ out' = [op |-> "names", val |-> names(Returned.files)]
    /\ UNCHANGED <<mode, path, fs, data, pc, boundary, hay, finished, files,
                   result, loadResult, parseCalls>>

CallGet ==
    /\ HasArchive
    /\ \E n \in ProbeNames :
          out' = [op |-> "get", arg |-> n, val |-> get(Returned.files, n)]
    /\ UNCHANGED <<mode, path, fs, data, pc, boundary, hay, finished, files,
                   result, loadResult, parseCalls>>

CallEntries ==
    /\ HasArchive
    /\ out' = [op |-> "entries", val |-> entries(Returned.files)]
    /\ UNCHANGED <<mode, path, fs, data, pc, boundary, hay, finished, files,
                   result, loadResult, parseCalls>>

Next ==
    \/ LoadRead
    \/ ParseBoundary
    \/ ItemComment
    \/ ItemHeader
    \/ ItemInvalid
    \/ ParseOk
    \/ LoadReturn
    \/ CallNames
    \/ CallGet
    \/ CallEntries

Spec == Init /\ [][Next]_vars

\* ---------------------------------------------------------------- reading a run
\* data.split(&boundary) collected: every item, in source order.
RECURSIVE SplitAll(_, _)
SplitAll(h, delim) ==
    LET n == NextItem(h, delim)
    IN IF n.finished THEN <<n.item>> ELSE <<n.item>> \o SplitAll(n.rest, delim)

\* The items of an input whose boundary is b.
ItemsWith(d, b) == SplitAll(SliceFrom(d, Len(b)), Delimiter(b))

\* The items of the input being parsed, once the boundary is known.
ItemsOf == SplitAll(SliceFrom(data, Len(boundary) - 1), boundary)

\* parse has returned.
ParseReturned == result.tag # "Pending"

\* The input begins with '<', one or more '=', '>'.
ShapeLens(d) ==
    {n \in 1..Len(d) : /\ n + 2 <= Len(d)
                       /\ d[1] = LT
                       /\ \A i \in 2..(n + 1) : d[i] = EQ
                       /\ d[n + 2] = GT}
IsShaped(d) == ShapeLens(d) # {}
ShapedBoundary(d) == SubSeq(d, 1, 2 + Min(ShapeLens(d)))

Max(S) == CHOOSE m \in S : \A n \in S : n <= m

HasNewline(s) == \E k \in 1..Len(s) : s[k] = NL

\* An item that is a comment or begins with a space.
WellFormed(item) == item = <<>> \/ item[1] = NL \/ item[1] = SP

\* The indices of the header items of its.
Headers(its) == {i \in 1..Len(its) : its[i] # <<>> /\ its[i][1] = SP}

\* The name a header item is written with: after the space, up to the first
\* newline or the end of the item.
WrittenName(item) ==
    LET nls == {k \in 2..Len(item) : item[k] = NL}
    IN IF nls = {} THEN SubSeq(item, 2, Len(item))
       ELSE SubSeq(item, 2, Min(nls) - 1)

\* Item i is " " + name + "\n" + content with the newline at k, and no later
\* header item carries the name.
WrittenEntryAt(its, i, k) ==
    /\ its[i][1] = SP
    /\ k >= 2
    /\ its[i][k] = NL
    /\ ~HasNewline(SubSeq(its[i], 2, k - 1))
    /\ \A j \in Headers(its) : j > i => WrittenName(its[j]) # SubSeq(its[i], 2, k - 1)

\* C1 as stated: an item " "+name+"\n"+content followed by the delimiter makes
\* parse succeed with get(name) == content, whatever the other items are.
C1_RoundTripAnyInput ==
    (ParseReturned /\ IsShaped(data)) =>
        LET its == ItemsWith(data, ShapedBoundary(data))
        IN \A i \in 1..(Len(its) - 1) : \A k \in 1..Len(its[i]) :
              WrittenEntryAt(its, i, k) =>
                 /\ result.tag = "Ok"
                 /\ get(result.files, SubSeq(its[i], 2, k - 1))
                       = Some(SubSeq(its[i], k + 1, Len(its[i])))

\* C1 amended: when every item of the input is a comment or a header item, an
\* item " "+name+"\n"+content followed by the delimiter, whose name no later
\* header item carries, makes parse succeed with get(name) == content exactly.
C1_RoundTrip ==
    (ParseReturned /\ IsShaped(data)) =>
        LET its == ItemsWith(data, ShapedBoundary(data))
        IN (\A j \in 1..Len(its) : WellFormed(its[j])) =>
             \A i \in 1..(Len(its) - 1) : \A k \in 1..Len(its[i]) :
                WrittenEntryAt(its, i, k) =>
                   /\ result.tag = "Ok"
                   /\ get(result.files, SubSeq(its[i], 2, k - 1))
                         = Some(SubSeq(its[i], k + 1, Len(its[i])))

\* A round trip whose content ends in a newline of its own has been parsed.
C1_Witness ==
    /\ result.tag = "Ok"
    /\ IsShaped(data)
    /\ LET its == ItemsWith(data, ShapedBoundary(data))
       IN \E i \in 1..(Len(its) - 1) : \E k \in 1..Len(its[i]) :
             /\ WrittenEntryAt(its, i, k)
             /\ k + 1 < Len(its[i])
             /\ its[i][Len(its[i])] = NL
             /\ get(result.files, SubSeq(its[i], 2, k - 1))
                   = Some(SubSeq(its[i], k + 1, Len(its[i])))

\* C2: after a successful parse, get(name) is the content of the last header
\* item carrying exactly that name, and None when no header item carries it.
C2_GetLastOrNone ==
    result.tag = "Ok" =>
        LET its == ItemsOf
            hdr == {i \in 1..Len(its) : Classify(its[i]) = "header"}
        IN \A name \in ProbeNames \cup {HeaderEntry(its[i])[1] : i \in hdr} :
              LET occ == {i \in hdr : HeaderEntry(its[i])[1] = name}
              IN IF occ = {}
                 THEN get(result.files, name) = None
                 ELSE get(result.files, name) = Some(HeaderEntry(its[Max(occ)])[2])

\* A name written twice with different contents has been parsed, and a probed
\* name is absent.
C2_Witness ==
    /\ result.tag = "Ok"
    /\ LET its == ItemsOf
           hdr == {i \in 1..Len(its) : Classify(its[i]) = "header"}
       IN /\ \E i, j \in hdr :
                /\ i < j
                /\ HeaderEntry(its[i])[1] = HeaderEntry(its[j])[1]
                /\ HeaderEntry(its[i])[2] # HeaderEntry(its[j])[2]
                /\ get(result.files, HeaderEntry(its[i])[1])
                      = Some(HeaderEntry(its[j])[2])
          /\ \E n \in ProbeNames : get(result.files, n) = None

\* C3: every input that does not begin with '<', one or more '=', '>' is
\* answered with NoBoundary.
C3_NoBoundaryUnlessShaped ==
    (ParseReturned /\ ~IsShaped(data)) => result = ErrNoBoundary

\* ---------------------------------------------------------------- the scenario
\* "foo.txt", "hello.md", "# Hi\nBody.\n", "# Hi\nBody.", "Other.\n"
FooTxt == <<102,111,111,46,116,120,116>>
HelloMd == <<104,101,108,108,111,46,109,100>>
HiBodyNl == <<35,32,72,105,10,66,111,100,121,46,10>>
HiBody == <<35,32,72,105,10,66,111,100,121,46>>
OtherNl == <<79,116,104,101,114,46,10>>

\* The 0-based offset in data at which item i begins.
RECURSIVE ItemOffset(_, _)
ItemOffset(its, i) ==
    IF i = 1 THEN Len(boundary) - 1
    ELSE ItemOffset(its, i - 1) + Len(its[i - 1]) + Len(boundary)

\* C4 as stated: the newline before the next boundary marker is part of the
\* content, so the scenario yields get("hello.md") == "# Hi\nBody.\n".
C4_ScenarioAsStated ==
    (ParseReturned /\ data = Scenario) =>
        /\ result.tag = "Ok"
        /\ names(result.files) = <<FooTxt, HelloMd>>
        /\ get(result.files, HelloMd) = Some(HiBodyNl)
        /\ get(result.files, FooTxt) = Some(OtherNl)

\* C4 amended: the content of an entry followed by a further boundary ends
\* before the newline that precedes the boundary marker (that newline belongs
\* to the delimiter): in the input, the content returned for a name is
\* followed at once by newline + boundary, and the scenario yields
\* names() == ["foo.txt","hello.md"], get("hello.md") == "# Hi\nBody." and
\* get("foo.txt") == "Other.\n".
C4_ContentEndsBeforeDelimiter ==
    /\ (ParseReturned /\ data = Scenario) =>
          /\ result.tag = "Ok"
          /\ names(result.files) = <<FooTxt, HelloMd>>
          /\ get(result.files, HelloMd) = Some(HiBody)
          /\ get(result.files, FooTxt) = Some(OtherNl)
    /\ result.tag = "Ok" =>
          LET its == ItemsOf
          IN \A i \in 1..(Len(its) - 1) :
                (/\ i \in Headers(its)
                 /\ HasNewline(its[i])
                 /\ \A j \in Headers(its) :
                       j > i => WrittenName(its[j]) # WrittenName(its[i]))
                => LET c == get(result.files, WrittenName(its[i]))
                       o == ItemOffset(its, i)
                   IN /\ c.some
                      /\ o + Len(its[i]) + Len(boundary) <= Len(data)
                      /\ SubSeq(data, o + 1, o + Len(its[i]) + Len(boundary))
                            = <<SP>> \o WrittenName(its[i]) \o <<NL>>
                                 \o c.val \o boundary

\* The scenario has been parsed.
C4_Witness ==
    /\ data = Scenario
    /\ result.tag = "Ok"
    /\ get(result.files, HelloMd) = Some(HiBody)

\* C5: an input that begins with a boundary and has an item that is not
\* empty and begins with neither a space nor a newline is answered with
\* InvalidItem carrying the text of the first such item, and no archive.
C5_InvalidItemFirst ==
    (ParseReturned /\ IsShaped(data)) =>
        LET its == ItemsWith(data, ShapedBoundary(data))
            bad == {i \in 1..Len(its) : ~WellFormed(its[i])}
        IN bad # {} => result = [tag |-> "InvalidItem", item |-> its[Min(bad)]]

\* Two malformed items of different text, the first of them reported.
C5_Witness ==
    /\ ParseReturned
    /\ IsShaped(data)
    /\ LET its == ItemsWith(data, ShapedBoundary(data))
           bad == {i \in 1..Len(its) : ~WellFormed(its[i])}
       IN /\ Cardinality(bad) >= 2
          /\ its[Min(bad)] # its[Max(bad)]
          /\ result = [tag |-> "InvalidItem", item |-> its[Min(bad)]]

\* C6: names() lists the distinct names of the header items in strictly
\* increasing lexicographic order, whatever the order of the items, and
\* entries() yields the same names in the same order, each with get(name).
C6_NamesSorted ==
    result.tag = "Ok" =>
        LET its == ItemsOf
            ns == names(result.files)
            es == entries(result.files)
        IN /\ \A i, j \in 1..Len(ns) : i < j => LexLess(ns[i], ns[j])
           /\ {ns[i] : i \in 1..Len(ns)}
                 = {WrittenName(its[i]) : i \in Headers(its)}
           /\ Len(es) = Len(ns)
           /\ \A i \in 1..Len(ns) :
                 /\ es[i][1] = ns[i]
                 /\ Some(es[i][2]) = get(result.files, ns[i])

\* Header items written in decreasing order of name have been parsed.
C6_Witness ==
    /\ result.tag = "Ok"
    /\ Len(names(result.files)) >= 2
    /\ LET its == ItemsOf
       IN \E i, j \in Headers(its) :
             i < j /\ LexLess(WrittenName(its[j]), WrittenName(its[i]))

\* C7 as stated: a header item with no newline makes parse succeed with
\* get(name) == "", whatever the other items are.
C7_EmptyEntryAnyInput ==
    (ParseReturned /\ IsShaped(data)) =>
        LET its == ItemsWith(data, ShapedBoundary(data))
        IN \A i \in Headers(its) :
              (/\ ~HasNewline(its[i])
               /\ \A j \in Headers(its) :
                     j > i => WrittenName(its[j]) # SubSeq(its[i], 2, Len(its[i])))
              => /\ result.tag = "Ok"
                 /\ get(result.files, SubSeq(its[i], 2, Len(its[i]))) = Some(<<>>)

\* C7 amended: when every item of the input is a comment or a header item, a
\* header item with no newline, whose name no later header item carries,
\* makes parse succeed with get(name) == "", for every boundary length.
C7_EmptyEntry ==
    (ParseReturned /\ IsShaped(data)) =>
        LET its == ItemsWith(data, ShapedBoundary(data))
        IN (\A j \in 1..Len(its) : WellFormed(its[j])) =>
             \A i \in Headers(its) :
                (/\ ~HasNewline(its[i])
                 /\ \A j \in Headers(its) :
                       j > i => WrittenName(its[j]) # SubSeq(its[i], 2, Len(its[i])))
                => /\ result.tag = "Ok"
                   /\ get(result.files, SubSeq(its[i], 2, Len(its[i]))) = Some(<<>>)

\* A header item without a newline, ending at a delimiter of the longer
\* boundary, has become an entry with empty content.
C7_Witness ==
    /\ result.tag = "Ok"
    /\ IsShaped(data)
    /\ Len(ShapedBoundary(data)) = 4
    /\ LET its == ItemsWith(data, ShapedBoundary(data))
       IN \E i \in Headers(its) :
             /\ i < Len(its)
             /\ ~HasNewline(its[i])
             /\ Len(its[i]) > 1
             /\ get(result.files, SubSeq(its[i], 2, Len(its[i]))) = Some(<<>>)

\* ---------------------------------------------------------------- comments
RECURSIVE Join(_, _)
Join(its, delim) ==
    IF Len(its) = 1 THEN its[1]
    ELSE its[1] \o delim \o Join(SubSeq(its, 2, Len(its)), delim)

InsertAt(its, k, c) == SubSeq(its, 1, k) \o <<c>> \o SubSeq(its, k + 1, Len(its))
RemoveAt(its, k) == SubSeq(its, 1, k - 1) \o SubSeq(its, k + 1, Len(its))

\* "", "\n", "\nx", "\n<=>", "\n a"
CommentItems ==
    { <<>>, <<10>>, <<10, 120>>, <<10, 60, 61, 62>>, <<10, 32, 97>> }

\* C8: a comment item contributes no name, and a valid input with one comment
\* item (and its delimiter) inserted at, or removed from, any item position
\* parses to the same archive.
C8_CommentsTransparent ==
    result.tag = "Ok" =>
        LET its == ItemsOf
            b == SliceFrom(boundary, 1)
        IN /\ Len(names(result.files)) <= Cardinality(Headers(its))
           /\ \A n \in Keys(result.files) :
                 \E i \in Headers(its) : WrittenName(its[i]) = n
           /\ \A k \in 0..Len(its) : \A c \in CommentItems :
                 Find(c, boundary) = 0 =>
                    Parse(b \o Join(InsertAt(its, k, c), boundary)) = result
           /\ \A k \in 1..Len(its) :
                 (Len(its) > 1 /\ (its[k] = <<>> \/ its[k][1] = NL)) =>
                    Parse(b \o Join(RemoveAt(its, k), boundary)) = result

\* An archive with a comment item between two header items has been parsed.
C8_Witness ==
    /\ result.tag = "Ok"
    /\ LET its == ItemsOf
       IN \E i, k \in Headers(its) : \E j \in 1..Len(its) :
             /\ i < j /\ j < k
             /\ (its[j] = <<>> \/ its[j][1] = NL)
    /\ Keys(result.files) # {}

\* C9: load reads first and parses second: a failed read is answered with
\* FileError::Io(path, error) and parse is not called; a failed parse with
\* FileError::Data(path, e), e the error of parse; otherwise with the archive
\* parse returns for the text.
C9_LoadWraps ==
    mode = "load" =>
        /\ pc = "load" => parseCalls = 0
        /\ pc = "done" =>
              IF ~fs.ok
              THEN /\ loadResult = [tag |-> "Io", path |-> path, err |-> fs.err]
                   /\ parseCalls = 0
                   /\ result = Pending
              ELSE /\ parseCalls = 1
                   /\ data = fs.text
                   /\ result = Parse(fs.text)
                   /\ IF result.tag = "Ok"
                      THEN loadResult = result
                      ELSE loadResult
                              = [tag |-> "Data", path |-> path, err |-> result]

\* A file that does not begin with a boundary has been loaded.
C9_Witness ==
    /\ mode = "load"
    /\ pc = "done"
    /\ fs.ok
    /\ loadResult = [tag |-> "Data", path |-> path, err |-> [tag |-> "NoBoundary"]]

\* C10: no name of a successfully parsed archive is the empty string.
C10_NamesNonEmpty ==
    result.tag = "Ok" =>
        \A i \in 1..Len(names(result.files)) : names(result.files)[i] # <<>>
====
